---- MODULE Spec2Model ----
(***************************************************************************)
(* A model of src/framework/router/application.ts: the decorator-built     *)
(* route registries, Route.match over anchored regular expressions,        *)
(* Application.handleRequest with its try/catch, encodeResponse and the    *)
(* GraphQL-over-HTTP adapter.                                              *)
(*                                                                         *)
(* Strings that are matched against patterns (paths, pattern sources, the  *)
(* cookie header) are sequences of one-character strings.  A pattern       *)
(* source is a sequence of tokens: a literal character, "|", "(", ")",     *)
(* "^", "$", or "N", which stands for the source text [0-9]+ .             *)
(***************************************************************************)
EXTENDS Integers, Sequences, FiniteSets, TLC

VARIABLES registry, registered, heap, last

vars == <<registry, registered, heap, last>>

(***************************************************************************)
(* Bounds and input sets                                                   *)
(***************************************************************************)
MaxRoutes == 2

\* The application types: A extends Application, B extends A.
Types == {"A", "B"}

Parent(t) == IF t = "B" THEN "A" ELSE "Application"

\* Application.get and Application.post (the other three are built the same way).
MethodNames == {"get", "post"}

RequestMethods == {"GET", "POST"}

\* The k-th decorated method of a class.
HandlerName(k) == CASE k = 1 -> "h1" [] k = 2 -> "h2" [] k = 3 -> "h3" [] OTHER -> "h4"

Digits == {"1"}

\* /a|/b    /([0-9]+)    /(a|b)
Patterns ==
    { <<"/", "a", "|", "/", "b">>,
      <<"/", "(", "N", ")">>,
      <<"/", "(", "a", "|", "b", ")">> }

\* URL.pathname always starts with "/".
Paths ==
    { <<"/", "a">>, <<"/", "b">>, <<"/", "a", "/", "b">>,
      <<"/", "1">>, <<"/", "1", "/", "a">> }

\* The raw cookie header: absent (""), "a=1", and "%", a malformed escape.
Cookies == { <<>>, <<"a", "=", "1">>, <<"%">> }

Requests == [method : RequestMethods, path : Paths, cookie : Cookies]

(***************************************************************************)
(* String.prototype.toLowerCase on the method names in use                 *)
(***************************************************************************)
toLowerCase(m) ==
    CASE m = "GET" -> "get"
      [] m = "POST" -> "post"
      [] m = "PUT" -> "put"
      [] OTHER -> m

(***************************************************************************)
(* RegExp.prototype.exec for a pattern without flags                       *)
(***************************************************************************)
RECURSIVE Depth(_, _)
\* the number of groups open before position k
Depth(toks, k) ==
    IF k <= 1 THEN 0
    ELSE Depth(toks, k - 1)
         + (IF toks[k - 1] = "(" THEN 1 ELSE IF toks[k - 1] = ")" THEN -1 ELSE 0)

TopBars(toks) == {k \in 1..Len(toks) : toks[k] = "|" /\ Depth(toks, k) = 0}

Min(S) == CHOOSE k \in S : \A j \in S : k <= j

\* the index of the ")" that closes the "(" at position 1
CloseOf(toks) == Min({k \in 2..Len(toks) : toks[k] = ")" /\ Depth(toks, k) = 1})

RECURSIVE MatchAlt(_, _, _), MatchSeq(_, _, _)
\* the end positions of the matches of the disjunction toks that start at i
MatchAlt(toks, s, i) ==
    IF TopBars(toks) = {} THEN MatchSeq(toks, s, i)
    ELSE LET k == Min(TopBars(toks))
         IN  MatchSeq(SubSeq(toks, 1, k - 1), s, i)
                \cup MatchAlt(SubSeq(toks, k + 1, Len(toks)), s, i)

\* the end positions of the matches of the alternative toks that start at i
MatchSeq(toks, s, i) ==
    IF toks = <<>> THEN {i}
    ELSE LET rest == Tail(toks) IN
         CASE toks[1] = "^" -> IF i = 1 THEN MatchSeq(rest, s, i) ELSE {}
           [] toks[1] = "$" -> IF i = Len(s) + 1 THEN MatchSeq(rest, s, i) ELSE {}
           [] toks[1] = "(" ->
                LET m == CloseOf(toks)
                IN  UNION { MatchSeq(SubSeq(toks, m + 1, Len(toks)), s, j) :
                              j \in MatchAlt(SubSeq(toks, 2, m - 1), s, i) }
           [] toks[1] = "N" ->
                UNION { MatchSeq(rest, s, j) :
                          j \in {e \in (i + 1)..(Len(s) + 1) :
                                    \A k \in i..(e - 1) : s[k] \in Digits} }
           [] OTHER ->
                IF i <= Len(s) /\ s[i] = toks[1]
                THEN MatchSeq(rest, s, i + 1) ELSE {}

\* pattern.exec(s) !== null: a match may start anywhere in s
exec(pattern, s) == \E i \in 1..(Len(s) + 1) : MatchAlt(pattern, s, i) # {}

(***************************************************************************)
(* Route                                                                   *)
(***************************************************************************)
Route(method, pattern, handler) ==
    [method |-> toLowerCase(method), pattern |-> pattern, handler |-> handler]

\* Route.match(request) !== null
match(route, request) ==
    IF toLowerCase(request.method) # route.method THEN FALSE
    ELSE exec(route.pattern, request.path)

(***************************************************************************)
(* The registries: registry[t] is the own property ROUTE_NAME of the       *)
(* prototype of type t; registered[t] is the history of the decorator      *)
(* applications on t.                                                      *)
(***************************************************************************)
NoRegistry == [defined |-> FALSE, routes |-> <<>>]

TotalRoutes == Len(registry["A"].routes) + Len(registry["B"].routes)

\* Application.method(name)(pattern)(target, property)
method(name, pattern, target, property) ==
    /\ TotalRoutes < MaxRoutes
    /\ LET own == IF ~registry[target].defined
                  THEN [defined |-> TRUE, routes |-> <<>>]
                  ELSE registry[target]
       IN  registry' =
             [registry EXCEPT ![target] =
                [defined |-> TRUE,
                 routes |-> Append(own.routes,
                                   Route(name, <<"^">> \o pattern \o <<"$">>, property))]]
    /\ registered' =
         [registered EXCEPT ![target] =
            Append(@, [name |-> name, pattern |-> pattern, property |-> property])]
    /\ UNCHANGED <<heap, last>>

RECURSIVE GetRoutes(_)
\* proto[Application.ROUTE_NAME]: a property read through the prototype chain
GetRoutes(t) ==
    IF t = "Application" THEN NoRegistry
    ELSE IF registry[t].defined THEN registry[t]
    ELSE GetRoutes(Parent(t))

(***************************************************************************)
(* HTTPResponse descriptors                                                *)
(***************************************************************************)
Undefined == "undefined"

EmptyHeaders == [k \in {} |-> Undefined]

\* One headers object outlives a request: a module-level constant that
\* handlers put into the descriptors they return.
HeaderRefs == {"CORS"}

HeapInit == [r \in HeaderRefs |-> [k \in {"access-control-allow-origin"} |-> "*"]]

NoHeaders == [kind |-> "absent", map |-> EmptyHeaders, ref |-> "none"]

FreshHeaders(map) == [kind |-> "fresh", map |-> map, ref |-> "none"]

SharedHeaders(ref) == [kind |-> "shared", map |-> EmptyHeaders, ref |-> ref]

NoStatus == [given |-> FALSE, code |-> 0]

Status(code) == [given |-> TRUE, code |-> code]

Num(n) == [t |-> "num", s |-> "", n |-> n]

Str(s) == [t |-> "str", s |-> s, n |-> 0]

\* the object {[s]: n}
Obj(s, n) == [t |-> "obj", s |-> s, n |-> n]

\* an object that refers to itself
Cyclic == [t |-> "cyclic", s |-> "", n |-> 0]

\* keys: the body keys present in the descriptor
Descriptor(keys, json, status, headers) ==
    [keys |-> keys, json |-> json, text |-> "hi", html |-> "<p>", stream |-> "S",
     status |-> status, headers |-> headers]

TextDescriptor(text, code) ==
    [Descriptor({"text"}, Num(0), Status(code), NoHeaders) EXCEPT !.text = text]

NoDescriptor == Descriptor({}, Num(0), NoStatus, NoHeaders)

NoResponse == [status |-> 0, body |-> [kind |-> "none", v |-> ""], headers |-> EmptyHeaders]

\* async handleNotFound
handleNotFound == TextDescriptor("404 not found", 404)

\* async handleInternalError
handleInternalError == TextDescriptor("500 internal error", 500)

(***************************************************************************)
(* JSON.stringify                                                          *)
(***************************************************************************)
DigitString(d) ==
    CASE d = 0 -> "0" [] d = 1 -> "1" [] d = 2 -> "2" [] d = 3 -> "3" [] d = 4 -> "4"
      [] d = 5 -> "5" [] d = 6 -> "6" [] d = 7 -> "7" [] d = 8 -> "8" [] OTHER -> "9"

RECURSIVE NumberToString(_)
NumberToString(n) ==
    IF n < 10 THEN DigitString(n)
    ELSE NumberToString(n \div 10) \o DigitString(n % 10)

\* JSON.stringify(j) of a value that has no cycle
stringify(j) ==
    CASE j.t = "num" -> NumberToString(j.n)
      [] j.t = "str" -> "\"" \o j.s \o "\""
      [] OTHER -> "{\"" \o j.s \o "\":" \o NumberToString(j.n) \o "}"

(***************************************************************************)
(* Application.encodeResponse                                              *)
(***************************************************************************)
Put(map, key, value) ==
    [k \in DOMAIN map \cup {key} |-> IF k = key THEN value ELSE map[k]]

\* the headers object line 198 binds: the descriptor's own object, or a new one
HeadersOf(responseObj, hp) ==
    CASE responseObj.headers.kind = "shared" -> hp[responseObj.headers.ref]
      [] responseObj.headers.kind = "fresh" -> responseObj.headers.map
      [] OTHER -> EmptyHeaders

Variant_TextFirst(responseObj) ==
    IF "text" \in responseObj.keys THEN "text"
    ELSE IF "json" \in responseObj.keys THEN "json"
    ELSE IF "html" \in responseObj.keys THEN "html"
    ELSE IF "stream" \in responseObj.keys THEN "stream"
    ELSE "none"

\* the if/else-if chain of lines 205-216
Variant(responseObj) ==
    IF "json" \in responseObj.keys THEN "json"
    ELSE IF "text" \in responseObj.keys THEN "text"
    ELSE IF "html" \in responseObj.keys THEN "html"
    ELSE IF "stream" \in responseObj.keys THEN "stream"
    ELSE "none"

\* [ok, response, heap]: ok is FALSE when JSON.stringify throws
encodeResponse(responseObj, hp) ==
    LET v == Variant(responseObj)
        status == IF responseObj.status.given THEN responseObj.status.code ELSE 200
    IN  IF v = "json" /\ responseObj.json.t = "cyclic"
        THEN [ok |-> FALSE, response |-> NoResponse, heap |-> hp]
        ELSE
          LET response ==
                CASE v = "json" -> [kind |-> "string", v |-> stringify(responseObj.json)]
                  [] v = "text" -> [kind |-> "string", v |-> responseObj.text]
                  [] v = "html" -> [kind |-> "string", v |-> responseObj.html]
                  [] v = "stream" -> [kind |-> "stream", v |-> responseObj.stream]
                  [] OTHER -> [kind |-> "string", v |-> ""]
              headers0 == HeadersOf(responseObj, hp)
              headers ==
                CASE v = "json" -> Put(headers0, "content-type", "application/json")
                  [] v = "text" -> Put(headers0, "content-type", "text/plain")
                  [] v = "html" -> Put(headers0, "content-type", "text/html")
                  [] OTHER -> headers0
              encodedHeaders ==
                [k \in {x \in DOMAIN headers : headers[x] # Undefined} |-> headers[k]]
          IN  [ok |-> TRUE,
               response |-> [status |-> status, body |-> response,
                             headers |-> encodedHeaders],
               heap |-> IF responseObj.headers.kind = "shared"
                        THEN [hp EXCEPT ![responseObj.headers.ref] = headers]
                        ELSE hp]

(***************************************************************************)
(* HTTPRequest and CookieJar construction                                  *)
(***************************************************************************)
HexDigits == {"1", "a", "b"}

\* decodeURIComponent throws URIError on "%" not followed by two hex digits
decodeURIComponentThrows(s) ==
    \E i \in 1..Len(s) :
        /\ s[i] = "%"
        /\ ~(i + 2 <= Len(s) /\ s[i + 1] \in HexDigits /\ s[i + 2] \in HexDigits)

\* new HTTPRequest(request) throws when the cookie header does not decode:
\* every segment of the header goes through decodeURIComponent.
HTTPRequestThrows(request) == decodeURIComponentThrows(request.cookie)

(***************************************************************************)
(* Application.handleRequest                                               *)
(***************************************************************************)
Overrides == {"default", "custom", "throws"}

\* what a subclass's override of a default handler returns
CustomNotFound == [Descriptor({"html"}, Num(0), Status(404), NoHeaders) EXCEPT !.html = "<h1>"]

CustomInternalError == TextDescriptor("oops", 503)

RECURSIVE ScanRoutes(_, _, _)
ScanRoutes_Last(routes, request, i) ==
    LET S == {k \in i..Len(routes) : match(routes[k], request)}
    IN  IF S = {} THEN 0 ELSE CHOOSE k \in S : \A j \in S : j <= k

\* the for loop of lines 169-190: the index of the route it stops at, 0 if none
ScanRoutes(routes, request, i) ==
    IF i > Len(routes) THEN 0
    ELSE IF match(routes[i], request) THEN i
    ELSE ScanRoutes(routes, request, i + 1)

\* what one call of handleRequest did; result stays "threw" unless it returns;
\* declared is the history of registrations on the type at the time of the call
Observation(this, request, nf, ie, hp) ==
    [op |-> "handleRequest", this |-> this, request |-> request, parsed |-> FALSE,
     declared |-> registered[this],
     consulted |-> NoRegistry, invoked |-> <<>>, outcome |-> "none",
     nf |-> nf, ie |-> ie, encoded |-> NoDescriptor, before |-> hp,
     result |-> "threw", response |-> NoResponse]

\* return Application.encodeResponse(responseObj)
Return(o, responseObj, hp) ==
    LET e == encodeResponse(responseObj, hp)
    IN  IF e.ok
        THEN [obs |-> [o EXCEPT !.result = "returned", !.response = e.response,
                                !.encoded = responseObj, !.before = hp],
              heap |-> e.heap]
        ELSE [obs |-> o, heap |-> e.heap]

\* the catch block, lines 183-188
Catch(o, ie, hp) ==
    IF ie = "throws" THEN [obs |-> o, heap |-> hp]
    ELSE Return(o,
                IF ie = "custom" THEN CustomInternalError ELSE handleInternalError,
                hp)

Try_NoCatch(o, outcome, ie, hp) ==
    IF outcome.kind = "returns" THEN Return(o, outcome.value, hp)
    ELSE [obs |-> o, heap |-> hp]

\* the try statement, lines 177-188
Try(o, outcome, ie, hp) ==
    IF outcome.kind = "returns"
    THEN LET e == encodeResponse(outcome.value, hp)
         IN  IF e.ok THEN Return(o, outcome.value, hp) ELSE Catch(o, ie, e.heap)
    ELSE Catch(o, ie, hp)

\* lines 192-194
NotFound(o, nf, hp) ==
    IF nf = "throws" THEN [obs |-> o, heap |-> hp]
    ELSE Return(o,
                IF nf = "custom" THEN CustomNotFound ELSE handleNotFound,
                hp)

\* outcome: what the matched handler does; nf, ie: the type's handleNotFound and
\* handleInternalError
Dispatch(this, request, outcome, nf, ie, hp) ==
    LET o == Observation(this, request, nf, ie, hp)
        proto == GetRoutes(this)
    IN  IF HTTPRequestThrows(request) THEN [obs |-> o, heap |-> hp]
        ELSE IF ~proto.defined
        THEN [obs |-> [o EXCEPT !.parsed = TRUE], heap |-> hp]
        ELSE LET i == ScanRoutes(proto.routes, request, 1)
                 p == [o EXCEPT !.parsed = TRUE, !.consulted = proto]
             IN  IF i = 0 THEN NotFound(p, nf, hp)
                 ELSE Try([p EXCEPT !.invoked = <<proto.routes[i].handler>>,
                                    !.outcome = outcome.kind],
                          outcome, ie, hp)

handleRequest(this, request, outcome, nf, ie) ==
    LET d == Dispatch(this, request, outcome, nf, ie, heap)
    IN  /\ last' = d.obs
        /\ heap' = d.heap
        /\ UNCHANGED <<registry, registered>>

(***************************************************************************)
(* The router: route registration and dispatch                             *)
(***************************************************************************)
Returns(d) == [kind |-> "returns", value |-> d]

Throws == [kind |-> "throws", value |-> NoDescriptor]

Rejects == [kind |-> "rejects", value |-> NoDescriptor]

\* What the application's methods do in one call: the matched handler, and
\* the type's handleNotFound and handleInternalError.
Behaviours ==
    { [outcome |-> Returns(Descriptor({"text"}, Num(0), NoStatus, NoHeaders)),
       nf |-> "default", ie |-> "default"],
      [outcome |-> Returns(Descriptor({"json"}, Cyclic, NoStatus, NoHeaders)),
       nf |-> "default", ie |-> "default"],
      [outcome |-> Throws, nf |-> "default", ie |-> "default"],
      [outcome |-> Rejects, nf |-> "custom", ie |-> "custom"],
      [outcome |-> Throws, nf |-> "throws", ie |-> "throws"] }

Idle == [op |-> "none"]

Init ==
    /\ registry = [t \in Types |-> NoRegistry]
    /\ registered = [t \in Types |-> <<>>]
    /\ heap = HeapInit
    /\ last = Idle

Register ==
    \E name \in MethodNames, pattern \in Patterns, target \in Types :
        method(name, pattern, target, HandlerName(Len(registered[target]) + 1))

\* One call is observed at a time: the next one is taken up once the hosting
\* runtime has taken the result of the previous one.
HandleRequest ==
    /\ last = Idle
    /\ \E this \in Types, request \in Requests, b \in Behaviours :
          handleRequest(this, request, b.outcome, b.nf, b.ie)

\* the hosting runtime takes the response (or the rejection) of the call
Respond ==
    /\ last # Idle
    /\ last' = Idle
    /\ UNCHANGED <<registry, registered, heap>>

Next == Register \/ HandleRequest \/ Respond

Spec == Init /\ [][Next]_vars

(***************************************************************************)
(* Properties of the router                                                *)
(***************************************************************************)
\* the routes the decorators applied to type t stand for, in registration order
RoutesOf(declared) ==
    [i \in 1..Len(declared) |->
        Route(declared[i].name, <<"^">> \o declared[i].pattern \o <<"$">>,
              declared[i].property)]

RegisteredRoutes == RoutesOf(last.declared)

\* the whole of s matches the pattern source p
FullMatch(p, s) == (Len(s) + 1) \in MatchAlt(p, s, 1)

Dispatched == last.op = "handleRequest" /\ last.parsed

MatchingRegistered ==
    {i \in 1..Len(RegisteredRoutes) : match(RegisteredRoutes[i], last.request)}

\* C1: when some route registered on the application's type matches the
\* request, handleRequest invokes exactly one handler, that of the
\* earliest-registered matching route, whatever that handler does.
C1_FirstMatchOnly ==
    (Dispatched /\ MatchingRegistered # {}) =>
        last.invoked = <<RegisteredRoutes[Min(MatchingRegistered)].handler>>

\* two routes with different handlers match, and the first one's handler threw
C1_Witness ==
    /\ Dispatched
    /\ last.outcome = "throws"
    /\ \E i, j \in MatchingRegistered :
          /\ i < j
          /\ RegisteredRoutes[i].handler # RegisteredRoutes[j].handler
          /\ last.invoked = <<RegisteredRoutes[i].handler>>

\* C2: every call of handleRequest returns a response; none throws or rejects.
C2_NeverThrows == last.op = "handleRequest" => last.result = "returned"

InternalErrorResponse ==
    [status |-> 500, body |-> [kind |-> "string", v |-> "500 internal error"],
     headers |-> [k \in {"content-type"} |-> "text/plain"]]

NotFoundResponse ==
    [status |-> 404, body |-> [kind |-> "string", v |-> "404 not found"],
     headers |-> [k \in {"content-type"} |-> "text/plain"]]

\* C4: for a request that no route registered on the application's type
\* matches (the type may have no route at all), handleRequest invokes no
\* handler and returns the encoded result of handleNotFound, by default 404,
\* "404 not found", text/plain.
C4_UnmatchedIs404 ==
    (Dispatched /\ MatchingRegistered = {}) =>
        /\ last.invoked = <<>>
        /\ last.result = "returned"
        /\ last.nf = "default" => last.response = NotFoundResponse

\* C6: the routes consulted when dispatching on an instance of a type are
\* exactly the routes registered on that type, in registration order.
C6_OwnRegistry ==
    Dispatched => last.consulted.routes = RegisteredRoutes

\* C8: a registered route with pattern p matches a path s only if the whole
\* of s matches p.
C8_WholePathOnly ==
    \A t \in Types : \A i \in 1..Len(registry[t].routes) :
        \A m \in RequestMethods, s \in Paths :
            match(registry[t].routes[i], [method |-> m, path |-> s, cookie |-> <<>>])
                => FullMatch(registered[t][i].pattern, s)

(***************************************************************************)
(* Response encoding: one application type with one route, whose handler   *)
(* returns any descriptor                                                  *)
(***************************************************************************)
BodyKeys == {"json", "text", "html", "stream"}

JsonValues == {Num(1), Str("hi"), Obj("a", 1), Cyclic}

StatusValues == {NoStatus, Status(201)}

HeaderValues ==
    { NoHeaders,
      FreshHeaders(EmptyHeaders),
      FreshHeaders([k \in {"content-type"} |-> "text/css"]),
      FreshHeaders([k \in {"content-type"} |-> Undefined]),
      SharedHeaders("CORS") }

Descriptors ==
    { Descriptor(keys, json, status, headers) :
        keys \in {k \in SUBSET BodyKeys : "json" \in k}, json \in JsonValues,
        status \in StatusValues, headers \in HeaderValues }
    \cup
    { Descriptor(keys, Num(0), status, headers) :
        keys \in {k \in SUBSET BodyKeys : "json" \notin k},
        status \in StatusValues, headers \in HeaderValues }

\* class A extends Application { @Application.get("/(a|b)") async h1(...) }
EncodeDeclared ==
    <<[name |-> "get", pattern |-> <<"/", "(", "a", "|", "b", ")">>, property |-> "h1"]>>

EncodeRequests ==
    { [method |-> "GET", path |-> <<"/", "a">>, cookie |-> <<>>],
      [method |-> "GET", path |-> <<"/", "1">>, cookie |-> <<>>] }

InitEncode ==
    /\ registry =
         [t \in Types |->
            IF t = "A"
            THEN [defined |-> TRUE,
                  routes |-> <<Route("get",
                                     <<"^">> \o EncodeDeclared[1].pattern \o <<"$">>,
                                     "h1")>>]
            ELSE NoRegistry]
    /\ registered = [t \in Types |-> IF t = "A" THEN EncodeDeclared ELSE <<>>]
    /\ heap = HeapInit
    /\ last = Idle

HandleRequestEncode ==
    /\ last = Idle
    /\ \E request \in EncodeRequests, d \in Descriptors :
          handleRequest("A", request, Returns(d), "default", "default")

NextEncode == HandleRequestEncode \/ Respond

SpecEncode == InitEncode /\ [][NextEncode]_vars

(***************************************************************************)
(* Properties of encodeResponse                                            *)
(***************************************************************************)
Returned == last.op = "handleRequest" /\ last.result = "returned"

ContentType(headers) ==
    IF "content-type" \in DOMAIN headers /\ headers["content-type"] # Undefined
    THEN headers["content-type"] ELSE "none"

\* the content of the headers object of the encoded descriptor when
\* encodeResponse was called
HeadersAtCall ==
    CASE last.encoded.headers.kind = "shared" -> last.before[last.encoded.headers.ref]
      [] last.encoded.headers.kind = "fresh" -> last.encoded.headers.map
      [] OTHER -> EmptyHeaders

\* C5: with a json, text or html body and an explicit content-type in the
\* descriptor's headers, the response carries the explicit content-type.
C5_ExplicitContentTypeWins ==
    (/\ Returned
     /\ last.encoded.keys \cap {"json", "text", "html"} # {}
     /\ last.encoded.headers.kind = "fresh"
     /\ ContentType(last.encoded.headers.map) # "none") =>
        ContentType(last.response.headers) = ContentType(last.encoded.headers.map)

\* C9: the body comes from the first key present in the order json, text,
\* html, stream, with JSON.stringify for json and the raw value otherwise;
\* json, text and html set application/json, text/plain and text/html, stream
\* and the empty body set no content-type; the body is "" without a body key;
\* the status is the descriptor's, 200 when it has none.
C9_BodyByFirstKey ==
    Returned =>
        LET d == last.encoded
            r == last.response
            ct == ContentType(r.headers)
        IN  /\ r.status = (IF d.status.given THEN d.status.code ELSE 200)
            /\ "json" \in d.keys =>
                 /\ r.body = [kind |-> "string", v |-> stringify(d.json)]
                 /\ ct = "application/json"
            /\ (d.keys \cap {"json"} = {} /\ "text" \in d.keys) =>
                 /\ r.body = [kind |-> "string", v |-> d.text]
                 /\ ct = "text/plain"
            /\ (d.keys \cap {"json", "text"} = {} /\ "html" \in d.keys) =>
                 /\ r.body = [kind |-> "string", v |-> d.html]
                 /\ ct = "text/html"
            /\ d.keys = {"stream"} =>
                 /\ r.body = [kind |-> "stream", v |-> d.stream]
                 /\ ct = ContentType(HeadersAtCall)
            /\ d.keys = {} =>
                 /\ r.body = [kind |-> "string", v |-> ""]
                 /\ ct = ContentType(HeadersAtCall)

\* a descriptor with all four body keys and a status is encoded from its json
C9_Witness ==
    /\ Returned
    /\ last.encoded.keys = BodyKeys
    /\ last.encoded.json = Obj("a", 1)
    /\ last.response.status = 201
    /\ last.response.body = [kind |-> "string", v |-> "{\"a\":1}"]
    /\ ContentType(last.response.headers) = "application/json"

\* C10: encoding leaves every headers object as its owner wrote it, and the
\* response is the one the descriptor alone determines, whatever was encoded
\* before.
C10_DescriptorUnchanged ==
    /\ heap = HeapInit
    /\ Returned => last.response = encodeResponse(last.encoded, HeapInit).response

(***************************************************************************)
(* The GraphQL adapter                                                     *)
(***************************************************************************)
\* a value that may be null (URLSearchParams.get, Headers.get) or undefined
Absent == [has |-> FALSE, v |-> ""]

Present(v) == [has |-> TRUE, v |-> v]

\* x || undefined
OrUndefined(x) == IF x.has /\ x.v # "" THEN x ELSE Absent

HelloQuery == "{ hello }"

\* the values JSON.parse yields here: null, or an object with an optional query
JsonNull == [t |-> "null", query |-> Absent]

JsonObject(query) == [t |-> "object", query |-> query]

\* JSON.parse(text): ok is FALSE when it throws SyntaxError
parse(text) ==
    CASE text = "null" -> [ok |-> TRUE, value |-> JsonNull]
      [] text = "{}" -> [ok |-> TRUE, value |-> JsonObject(Absent)]
      [] text = "{\"a\":1}" -> [ok |-> TRUE, value |-> JsonObject(Absent)]
      [] text = "{\"query\":\"{ hello }\"}" ->
            [ok |-> TRUE, value |-> JsonObject(Present(HelloQuery))]
      [] OTHER -> [ok |-> FALSE, value |-> JsonNull]

GraphQLRequests ==
    [method : {"GET", "POST", "PUT"},
     query : {Absent, Present(HelloQuery)},
     operationName : {Absent, Present("Op")},
     variables : {Absent, Present(""), Present("{\"a\":1}"), Present("not-json")},
     contentType : {Absent, Present("application/json"),
                    Present("application/graphql"), Present("text/plain")},
     body : {"", "null", "{}", "{\"query\":\"{ hello }\"}", "not-json", HelloQuery}]

NoQuery ==
    [null |-> TRUE, query |-> Absent, operationName |-> Absent,
     variables |-> [given |-> FALSE, value |-> JsonNull]]

Resolved(query, operationName, variables) ==
    [null |-> FALSE, query |-> query, operationName |-> operationName,
     variables |-> variables]

\* [threw, value]: threw when the promise rejects
getGraphQLQuery(request) ==
    CASE toLowerCase(request.method) = "get" ->
            LET query == request.query
                operationName == OrUndefined(request.operationName)
                variables == OrUndefined(request.variables)
            IN  IF ~query.has THEN [threw |-> FALSE, value |-> NoQuery]
                ELSE IF variables.has /\ ~parse(variables.v).ok
                THEN [threw |-> FALSE, value |-> NoQuery]
                ELSE [threw |-> FALSE,
                      value |-> Resolved(query, operationName,
                                  IF variables.has
                                  THEN [given |-> TRUE, value |-> parse(variables.v).value]
                                  ELSE [given |-> FALSE, value |-> JsonNull])]
      [] toLowerCase(request.method) = "post" ->
            IF request.contentType = Present("application/json")
            THEN IF ~parse(request.body).ok
                 THEN [threw |-> TRUE, value |-> NoQuery]
                 ELSE IF parse(request.body).value.t = "null"
                 THEN [threw |-> FALSE, value |-> NoQuery]
                 ELSE [threw |-> FALSE,
                       value |-> Resolved(parse(request.body).value.query, Absent,
                                          [given |-> FALSE, value |-> JsonNull])]
            ELSE IF request.contentType = Present("application/graphql")
            THEN [threw |-> FALSE,
                  value |-> Resolved(Present(request.body), Absent,
                                     [given |-> FALSE, value |-> JsonNull])]
            ELSE [threw |-> FALSE, value |-> NoQuery]
      [] OTHER -> [threw |-> FALSE, value |-> NoQuery]

\* the result of the external executor, an opaque JSON value
ExecutionResult == Obj("data", 1)

\* executor: the arguments of the calls of graphql(...)
handleGraphQLRequest(request) ==
    LET graphQLRequest == getGraphQLQuery(request)
        o == [op |-> "handleGraphQLRequest", request |-> request,
              resolved |-> graphQLRequest.value, result |-> "threw",
              descriptor |-> NoDescriptor, executor |-> <<>>]
    IN  /\ last' =
             IF graphQLRequest.threw THEN o
             ELSE IF graphQLRequest.value.null
             THEN [o EXCEPT !.result = "returned",
                            !.descriptor = TextDescriptor("400 bad request", 400)]
             ELSE [o EXCEPT !.result = "returned",
                            !.descriptor = Descriptor({"json"}, ExecutionResult,
                                                      NoStatus, NoHeaders),
                            !.executor = <<[query |-> graphQLRequest.value.query,
                                            variables |-> graphQLRequest.value.variables,
                                            operationName |->
                                                graphQLRequest.value.operationName]>>]
        /\ UNCHANGED <<registry, registered, heap>>

HandleGraphQLRequest ==
    /\ last = Idle
    /\ \E request \in GraphQLRequests : handleGraphQLRequest(request)

NextGraphQL == HandleGraphQLRequest \/ Respond

SpecGraphQL == Init /\ [][NextGraphQL]_vars

(***************************************************************************)
(* Properties of the GraphQL adapter                                       *)
(***************************************************************************)
\* the request has unparseable variables, no query, or an unsupported
\* method/content-type combination
Malformed(request) ==
    CASE request.method = "GET" ->
            \/ ~request.query.has
            \/ request.variables.has /\ request.variables.v # ""
                 /\ ~parse(request.variables.v).ok
      [] request.method = "POST" ->
            IF request.contentType = Present("application/json")
            THEN \/ ~parse(request.body).ok
                 \/ ~parse(request.body).value.query.has
            ELSE request.contentType # Present("application/graphql")
      [] OTHER -> TRUE

\* C7: a malformed GraphQL request resolves to no query without throwing, and
\* handleGraphQLRequest answers 400 with a plain-text body without calling
\* the executor.
C7_MalformedIs400 ==
    (last.op = "handleGraphQLRequest" /\ Malformed(last.request)) =>
        /\ last.result = "returned"
        /\ last.resolved.null
        /\ last.descriptor = TextDescriptor("400 bad request", 400)
        /\ last.executor = <<>>

====
